---- MODULE Spec2Model ----
(***************************************************************************)
(* Model of mcp-client/client.py: the MCPClient session lifecycle          *)
(* (connect_to_server, cleanup), the interactive chat_loop and the         *)
(* single-turn tool-call state machine process_query.                      *)
(*                                                                         *)
(* Python's None is modelled as the empty tuple <<>> and a present value v *)
(* as the one-element tuple <<v>> (an optional).  Exceptions are the       *)
(* strings naming their class.  The servers and the model API are          *)
(* environment: each external call draws its outcome from a small set.     *)
(***************************************************************************)
EXTENDS Integers, Sequences, FiniteSets, TLC

\* ------------------------------------------------------------------ bounds
\* Number of process_query invocations explored in one process run.
MaxTurns == 2
\* Number of cleanup() calls explored when cleanup is called repeatedly.
MaxCleanups == 2

\* ------------------------------------------------------- optional values
None == <<>>
Some(v) == <<v>>
IsNone(o) == o = <<>>
Get(o) == o[1]

\* ------------------------------------------------------- string helpers
\* Paths and console lines are tuples of one-character strings.
\* Variant: only the lengths are compared.
EndsWith_LengthOnly(s, suffix) == Len(s) >= Len(suffix)

EndsWith(s, suffix) ==
    /\ Len(s) >= Len(suffix)
    /\ SubSeq(s, Len(s) - Len(suffix) + 1, Len(s)) = suffix

Whitespace == {" ", "\t"}

RECURSIVE LStrip(_)
LStrip(s) ==
    IF s # <<>> /\ Head(s) \in Whitespace THEN LStrip(Tail(s)) ELSE s

RECURSIVE RStrip(_)
RStrip(s) ==
    IF s # <<>> /\ s[Len(s)] \in Whitespace
    THEN RStrip(SubSeq(s, 1, Len(s) - 1))
    ELSE s

Strip(s) == RStrip(LStrip(s))

\* Variant: the comparison with 'quit' is made without folding case.
Lower_NoFold(s) == s

LowerChar(c) ==
    CASE c = "Q" -> "q"
      [] c = "U" -> "u"
      [] c = "I" -> "i"
      [] c = "T" -> "t"
      [] c = "H" -> "h"
      [] OTHER -> c

Lower(s) == [i \in 1..Len(s) |-> LowerChar(s[i])]

\* ------------------------------------------------------- environment inputs
\* sys.argv: the program name followed by the arguments given.
ArgvSet ==
    { <<"client.py">>,
      <<"client.py", <<"s", ".", "p", "y">> >>,
      <<"client.py", <<"s", ".", "j", "s">> >>,
      <<"client.py", <<"s", ".", "t", "x", "t">> >> }

\* Lines typed at the "Query: " prompt.
Lines ==
    { <<"q", "u", "i", "t">>,
      <<" ", "Q", "u", "I", "T", " ">>,
      <<" ", "h", "i">> }

\* Tool Descriptors a server may return from list_tools.  A tool without
\* required parameters may publish an input schema with no "required" key.
ListFilesTool ==
    [name |-> "list_files", description |-> "List files in a directory",
     inputSchema |-> [properties |-> [path |-> "string"],
                      required |-> <<"path">>]]

PingTool ==
    [name |-> "ping", description |-> "Ping the server",
     inputSchema |-> [properties |-> <<>>]]

ListToolsResults ==
    { <<>>, <<ListFilesTool>>, <<ListFilesTool, PingTool>> }

\* One tool-call request of an assistant message.
ToolCall(id, name, arguments) ==
    [id |-> id, type |-> "function",
     function |-> [name |-> name, arguments |-> arguments]]

\* Assistant messages (message.model_dump()) the chat-completion API may
\* return: content and tool_calls are each optional.
AssistantMessage(content, tool_calls) ==
    [role |-> "assistant", content |-> content, tool_calls |-> tool_calls]

ModelResponses ==
    { AssistantMessage(Some("4"), None),
      AssistantMessage(None, None),
      AssistantMessage(Some("4"), Some(<<>>)),
      AssistantMessage(None,
          Some(<<ToolCall("call_1", "list_files", "{\"path\": \"/tmp\"}")>>)),
      AssistantMessage(Some("Let me check."),
          Some(<<ToolCall("call_2", "list_files", "")>>)),
      AssistantMessage(None,
          Some(<<ToolCall("call_1", "list_files", "{path")>>)),
      AssistantMessage(None,
          Some(<<ToolCall("call_1", "list_files", "{}"),
                 ToolCall("call_2", "nope", "{}")>>)) }

\* CallToolResult values session.call_tool may return.
TextContent(text) == [type |-> "text", text |-> text]

CallToolResults ==
    { [content |-> <<TextContent("a.txt")>>, isError |-> FALSE],
      [content |-> <<TextContent("Unknown tool")>>, isError |-> TRUE],
      [content |-> <<>>, isError |-> FALSE] }

\* ------------------------------------------------------- pure functions
\* json.loads on the argument payloads above: the parsed value, or a
\* JSONDecodeError for a payload that is not JSON.
JsonLoads(s) ==
    CASE s = "{}" -> [ok |-> TRUE, value |-> <<>>]
      [] s = "{\"path\": \"/tmp\"}" -> [ok |-> TRUE, value |-> [path |-> "/tmp"]]
      [] OTHER -> [ok |-> FALSE, value |-> <<>>]

\* str() of a parsed argument mapping, as an f-string formats it.
PyStr(d) ==
    IF d = <<>> THEN "{}" ELSE "{'path': '" \o d.path \o "'}"

\* TextContent.model_dump_json()
ModelDumpJson(block) ==
    "{\"type\":\"" \o block.type \o "\",\"text\":\"" \o block.text
        \o "\",\"annotations\":null}"

\* Variant: every part is terminated by a newline instead of joined by one.
RECURSIVE JoinLines_Terminated(_)
JoinLines_Terminated(parts) ==
    IF parts = <<>> THEN ""
    ELSE Get(parts[1]) \o "\n" \o JoinLines_Terminated(Tail(parts))

\* Variant: only the last part, the model's final text, is returned.
JoinLines_LastPart(parts) ==
    IF parts = <<>> THEN "" ELSE Get(parts[Len(parts)])

\* "\n".join(final_text); the caller checks that every part is a str.
RECURSIVE JoinLines(_)
JoinLines(parts) ==
    IF parts = <<>> THEN ""
    ELSE IF Len(parts) = 1 THEN Get(parts[1])
    ELSE Get(parts[1]) \o "\n" \o JoinLines(Tail(parts))

\* convert_tool_format: subscripting inputSchema raises KeyError when a key
\* is missing.
ConvertRaises(tool) ==
    \/ "properties" \notin DOMAIN tool.inputSchema
    \/ "required" \notin DOMAIN tool.inputSchema

convert_tool_format(tool) ==
    [type |-> "function",
     function |-> [name |-> tool.name,
                   description |-> tool.description,
                   parameters |-> [type |-> "object",
                                   properties |-> tool.inputSchema.properties,
                                   required |-> tool.inputSchema.required]]]

\* ------------------------------------------------------------------ state
VARIABLES
    pc,             \* position of main / chat_loop / process_query
    argv,           \* sys.argv
    exit_stack,     \* contexts entered on self.exit_stack, oldest first
    acquired,       \* every context ever entered (transport, session)
    released,       \* every context exited, in order of release
    cleanup_calls,  \* completed calls of cleanup()
    initialized,    \* session.initialize() has returned
    session_requests, \* list_tools / call_tool requests issued so far
    messages,       \* self.messages, the conversation log
    stdin_eof,      \* standard input is exhausted
    eof_errors,     \* EOFError records logged by chat_loop, modulo 2
    query,          \* chat_loop local: the stripped line last read, if any
    last_error,     \* exception logged by chat_loop's handler, if any
    exc,            \* exception propagating out of main, if any
    exit_code,      \* status passed to sys.exit, if any
    tools,          \* process_query local: response.tools, if fetched
    available_tools,\* process_query local
    content,        \* process_query local: first response's message
    tool_name,      \* process_query local
    tool_args,      \* process_query local
    result,         \* process_query local: the CallToolResult, or None
    second_response,\* process_query local: second response's message
    final_text,     \* process_query local: list of optional strings
    response_text,  \* value last returned by process_query, if any
    turns,          \* process_query invocations so far
    len_before,     \* len(self.messages) when the current turn began
    model_calls,    \* chat.completions.create calls issued this turn
    tool_dispatches,\* session.call_tool calls issued this turn
    dispatch_fault, \* call_tool raised this turn
    ops,            \* external operations issued this turn, in order
    turn_status     \* "none", "running", "returned", "raised", "interrupted"

conn_vars == <<argv, exit_stack, acquired, released, cleanup_calls,
               initialized, exc, exit_code>>
local_vars == <<available_tools, content, tool_name, tool_args, final_text,
                response_text>>
turn_vars == <<query, tools, result, second_response>>
obs_vars == <<turns, len_before, model_calls, tool_dispatches, dispatch_fault,
              turn_status, ops>>
input_vars == <<stdin_eof, eof_errors>>
vars == <<pc, conn_vars, session_requests, messages, input_vars, last_error,
          local_vars, turn_vars, obs_vars>>

\* Session state of spec section 4.2, read off the client's fields.
SessionState ==
    IF cleanup_calls > 0 THEN "Closed"
    ELSE IF initialized /\ \E i \in 1..Len(exit_stack) : exit_stack[i] = "session"
         THEN "Ready"
    ELSE IF exit_stack # <<>> THEN "Connecting"
    ELSE "Disconnected"

Init ==
    /\ pc = "main"
    /\ argv \in ArgvSet
    /\ exit_stack = <<>>
    /\ acquired = <<>>
    /\ released = <<>>
    /\ cleanup_calls = 0
    /\ initialized = FALSE
    /\ session_requests = 0
    /\ messages = <<>>
    /\ stdin_eof = FALSE
    /\ eof_errors = 0
    /\ query = None
    /\ tools = None
    /\ result = None
    /\ second_response = None
    /\ ops = <<>>
    /\ last_error = None
    /\ exc = None
    /\ exit_code = None
    /\ available_tools = <<>>
    /\ content = None
    /\ tool_name = None
    /\ tool_args = None
    /\ final_text = <<>>
    /\ response_text = None
    /\ turns = 0
    /\ len_before = 0
    /\ model_calls = 0
    /\ tool_dispatches = 0
    /\ dispatch_fault = FALSE
    /\ turn_status = "none"

\* Variant: the log records entries without the turn's opening entry kept
\* apart, so an entry replaces the last one when the log is non-empty and
\* ends with a user entry.
LogAppend_Overwrite(log, entry) ==
    IF log # <<>> /\ log[Len(log)].role = "user"
    THEN Append(SubSeq(log, 1, Len(log) - 1), entry)
    ELSE Append(log, entry)

\* Variant: the log is kept to a window of the three latest entries.
LogAppend_Prune(log, entry) ==
    IF Len(log) >= 3 THEN Append(Tail(log), entry) ELSE Append(log, entry)

\* self.messages.append(entry), lines 82, 94 and 111.
LogAppend(log, entry) == Append(log, entry)

\* ------------------------------------------------------- control transfer
\* Variant: cleanup follows chat_loop without a finally clause, so an
\* exception leaves main directly.
ExitTry_NoFinally(e) ==
    /\ pc' = IF IsNone(e) THEN "finally" ELSE "exited"
    /\ exc' = e

\* Variant: main logs an error raised by connect_to_server and enters
\* chat_loop all the same.
ExitTry_ConnectIgnored(e) ==
    /\ pc' = IF ~IsNone(e) /\ pc \in {"connect", "stdio", "client_session",
                                       "initialize", "connect_list"}
             THEN "prompt" ELSE "finally"
    /\ exc' = IF pc' = "prompt" THEN exc ELSE e

\* main's try block (lines 160-164) is left, normally (e = None) or by the
\* exception e: control reaches the finally clause.
ExitTry(e) ==
    /\ pc' = "finally"
    /\ exc' = e

\* Variant: the handler logs the exception and breaks out of the loop.
ChatLoopExcept_Break(e) ==
    /\ pc' = "finally"
    /\ last_error' = Some(e)
    /\ turn_status' = IF turn_status = "running" THEN "raised" ELSE turn_status

\* chat_loop's handler (lines 145-146): an Exception raised while reading the
\* prompt or inside process_query is logged and the while loop goes on.
ChatLoopExcept(e) ==
    /\ pc' = "prompt"
    /\ last_error' = Some(e)
    /\ turn_status' = IF turn_status = "running" THEN "raised" ELSE turn_status

\* Positions inside main's try block.
TryPcs == {"connect", "stdio", "client_session", "initialize", "connect_list",
           "prompt", "list_tools", "model1", "call_tool", "model2"}
TurnPcs == {"list_tools", "model1", "call_tool", "model2"}

\* ------------------------------------------------------------------ main
\* main, lines 155-161: the usage check, then the client is constructed and
\* connect_to_server is entered.
Main ==
    /\ pc = "main"
    /\ IF Len(argv) < 2
       THEN /\ pc' = "exited"
            /\ exit_code' = Some(1)
       ELSE /\ pc' = "connect"
            /\ UNCHANGED exit_code
    /\ UNCHANGED <<argv, exit_stack, acquired, released, cleanup_calls,
                   initialized, exc, session_requests, messages, input_vars,
                   last_error, local_vars, turn_vars, obs_vars>>

\* connect_to_server, lines 57-67: the extension check.
ConnectCheck ==
    /\ pc = "connect"
    /\ LET server_script_path == argv[2]
           is_python == EndsWith(server_script_path, <<".", "p", "y">>)
           is_js == EndsWith(server_script_path, <<".", "j", "s">>)
       IN IF ~(is_python \/ is_js)
          THEN ExitTry(Some("ValueError"))
          ELSE pc' = "stdio" /\ UNCHANGED exc
    /\ UNCHANGED <<argv, exit_stack, acquired, released, cleanup_calls,
                   initialized, exit_code, session_requests, messages,
                   input_vars, last_error, local_vars, turn_vars, obs_vars>>

\* connect_to_server, lines 69-70: the server process is spawned and its
\* stdio transport entered on the exit stack, or the launch fails.
ConnectStdio ==
    /\ pc = "stdio"
    /\ \/ /\ exit_stack' = Append(exit_stack, "stdio")
          /\ acquired' = Append(acquired, "stdio")
          /\ pc' = "client_session"
          /\ UNCHANGED exc
       \/ /\ ExitTry(Some("OSError"))
          /\ UNCHANGED <<exit_stack, acquired>>
    /\ UNCHANGED <<argv, released, cleanup_calls, initialized, exit_code,
                   session_requests, messages, input_vars, last_error,
                   local_vars, turn_vars, obs_vars>>

\* connect_to_server, line 71: the ClientSession is entered on the exit stack.
ConnectSession ==
    /\ pc = "client_session"
    /\ exit_stack' = Append(exit_stack, "session")
    /\ acquired' = Append(acquired, "session")
    /\ pc' = "initialize"
    /\ UNCHANGED <<argv, released, cleanup_calls, initialized, exc, exit_code,
                   session_requests, messages, input_vars, last_error,
                   local_vars, turn_vars, obs_vars>>

\* connect_to_server, line 73: the initialize exchange.
Initialize ==
    /\ pc = "initialize"
    /\ \/ /\ initialized' = TRUE
          /\ pc' = "connect_list"
          /\ UNCHANGED exc
       \/ /\ ExitTry(Some("McpError"))
          /\ UNCHANGED initialized
    /\ UNCHANGED <<argv, exit_stack, acquired, released, cleanup_calls,
                   exit_code, session_requests, messages, input_vars,
                   last_error, local_vars, turn_vars, obs_vars>>

\* connect_to_server, lines 76-79: the tools are listed once for the log
\* line and the conversation log is created; main then enters chat_loop.
ConnectListTools ==
    /\ pc = "connect_list"
    /\ session_requests' = session_requests + 1
    /\ \/ /\ messages' = <<>>
          /\ pc' = "prompt"
          /\ UNCHANGED exc
       \/ /\ ExitTry(Some("McpError"))
          /\ UNCHANGED messages
    /\ UNCHANGED <<argv, exit_stack, acquired, released, cleanup_calls,
                   initialized, exit_code, input_vars, last_error, local_vars,
                   turn_vars,
                   obs_vars>>

\* A KeyboardInterrupt (or the task's cancellation) arrives while main is in
\* its try block.  It is a BaseException: chat_loop's "except Exception" does
\* not catch it and it leaves the try block.
Interrupt ==
    /\ pc \in TryPcs
    /\ ExitTry(Some("KeyboardInterrupt"))
    /\ turn_status' = IF turn_status = "running" THEN "interrupted"
                      ELSE turn_status
    /\ UNCHANGED <<argv, exit_stack, acquired, released, cleanup_calls,
                   initialized, exit_code, session_requests, messages,
                   input_vars, last_error, local_vars, turn_vars, turns,
                   len_before, model_calls, tool_dispatches, dispatch_fault,
                   ops>>

RECURSIVE Reverse(_)
Reverse(s) == IF s = <<>> THEN <<>> ELSE Append(Reverse(Tail(s)), Head(s))

\* Variant: aclose exits every context that was ever entered, whether or
\* not it is still on the stack.
cleanup_ExitsAllEntered ==
    /\ released' = released \o Reverse(acquired)
    /\ exit_stack' = <<>>
    /\ cleanup_calls' = cleanup_calls + 1

\* cleanup, lines 149-151: exit_stack.aclose() pops and exits the contexts
\* still on the stack, last entered first; on an empty stack it does nothing.
cleanup ==
    /\ released' = released \o Reverse(exit_stack)
    /\ exit_stack' = <<>>
    /\ cleanup_calls' = cleanup_calls + 1

\* cleanup is called again on a client whose main has finished.
CleanupAgain ==
    /\ pc = "exited"
    /\ IsNone(exit_code)
    /\ cleanup_calls < MaxCleanups
    /\ cleanup
    /\ UNCHANGED <<pc, argv, acquired, initialized, exc, exit_code,
                   session_requests, messages, input_vars, last_error,
                   local_vars, turn_vars, obs_vars>>

\* main's finally clause and cleanup, lines 149-151 and 163-164:
\* exit_stack.aclose() exits the entered contexts, last entered first; the
\* pending exception, if any, then leaves main.
Cleanup ==
    /\ pc = "finally"
    /\ cleanup
    /\ pc' = "exited"
    /\ UNCHANGED <<argv, acquired, initialized, exc, exit_code,
                   session_requests, messages, input_vars, last_error,
                   local_vars, turn_vars, obs_vars>>

\* ------------------------------------------------------------- chat_loop
\* Variant: chat_loop starts process_query without awaiting it, so the next
\* line is read while the turn is still running.
AtPrompt_NotAwaited == pc \in {"prompt", "list_tools", "model1", "call_tool",
                               "model2"}

\* chat_loop is at line 137: the previous iteration, and with it the awaited
\* process_query of line 142, has finished.
AtPrompt == pc = "prompt"

\* chat_loop, line 137: input() raises EOFError at end of input; the handler
\* logs it and the loop prompts again.
ReadEOF ==
    /\ AtPrompt
    /\ stdin_eof' = TRUE
    /\ eof_errors' = (eof_errors + 1) % 2
    /\ ChatLoopExcept("EOFError")
    /\ UNCHANGED <<conn_vars, session_requests, messages, local_vars,
                   turn_vars, turns, len_before, model_calls, tool_dispatches,
                   dispatch_fault, ops>>

\* chat_loop, lines 137-142, and process_query, lines 82-85: a line is read
\* and stripped; 'quit' in any case breaks the loop, any other line starts a
\* turn, which first appends the user entry.
ReadLine ==
    /\ AtPrompt
    /\ ~stdin_eof
    /\ \E line \in Lines :
         LET stripped == Strip(line)
         IN IF Lower(stripped) = <<"q", "u", "i", "t">>
            THEN /\ ExitTry(None)
                 /\ query' = Some(stripped)
                 /\ UNCHANGED <<messages, last_error, obs_vars,
                                available_tools, content, tool_name,
                                tool_args, final_text, tools, result,
                                second_response>>
            ELSE /\ turns < MaxTurns
                 /\ query' = Some(stripped)
                 /\ messages' = LogAppend(messages,
                                          [role |-> "user",
                                           content |-> stripped])
                 /\ tools' = None
                 /\ result' = None
                 /\ second_response' = None
                 /\ ops' = <<>>
                 /\ pc' = "list_tools"
                 /\ last_error' = None
                 /\ turns' = turns + 1
                 /\ len_before' = Len(messages)
                 /\ model_calls' = 0
                 /\ tool_dispatches' = 0
                 /\ dispatch_fault' = FALSE
                 /\ turn_status' = "running"
                 /\ available_tools' = <<>>
                 /\ content' = None
                 /\ tool_name' = None
                 /\ tool_args' = None
                 /\ final_text' = <<>>
                 /\ UNCHANGED exc
    /\ UNCHANGED <<argv, exit_stack, acquired, released, cleanup_calls,
                   initialized, exit_code, session_requests, input_vars,
                   response_text>>

\* --------------------------------------------------------- process_query
\* process_query, line 129, and chat_loop, lines 142-143: the parts of
\* final_text are joined (a part that is None makes join raise TypeError) and
\* the text is returned to chat_loop, which logs it and prompts again.
ReturnText(parts) ==
    IF \E i \in 1..Len(parts) : IsNone(parts[i])
    THEN /\ ChatLoopExcept("TypeError")
         /\ UNCHANGED response_text
    ELSE /\ pc' = "prompt"
         /\ response_text' = Some(JoinLines(parts))
         /\ turn_status' = "returned"
         /\ UNCHANGED last_error

\* process_query, lines 86-87: the tool list is fetched again and adapted.
ListTools ==
    /\ pc = "list_tools"
    /\ session_requests' = session_requests + 1
    /\ ops' = Append(ops, "list_tools")
    /\ \/ /\ ChatLoopExcept("McpError")
          /\ UNCHANGED <<available_tools, tools>>
       \/ \E fetched \in ListToolsResults :
            /\ tools' = Some(fetched)
            /\ IF \E i \in 1..Len(fetched) : ConvertRaises(fetched[i])
               THEN /\ ChatLoopExcept("KeyError")
                    /\ UNCHANGED available_tools
               ELSE /\ available_tools' =
                        [i \in 1..Len(fetched) |->
                            convert_tool_format(fetched[i])]
                    /\ pc' = "model1"
                    /\ UNCHANGED <<last_error, turn_status>>
    /\ UNCHANGED <<conn_vars, messages, input_vars, content, tool_name,
                   tool_args, final_text, response_text, turns, len_before,
                   model_calls, tool_dispatches, dispatch_fault, query,
                   result, second_response>>

\* process_query, lines 88-103 and 127-129: the first model call.  The
\* assistant message is appended; without tool calls its content is the
\* answer, otherwise the first tool call's name and arguments are read.
FirstModelCall ==
    /\ pc = "model1"
    /\ model_calls' = model_calls + 1
    /\ ops' = Append(ops, "model")
    /\ \/ /\ ChatLoopExcept("APIError")
          /\ UNCHANGED <<messages, content, tool_name, tool_args, final_text,
                         response_text>>
       \/ \E response \in ModelResponses :
            /\ messages' = LogAppend(messages, response)
            /\ content' = Some(response)
            /\ IF ~IsNone(response.tool_calls)
               THEN LET tool_calls == Get(response.tool_calls)
                    IN IF tool_calls = <<>>
                       THEN /\ ChatLoopExcept("IndexError")
                            /\ UNCHANGED <<tool_name, tool_args, final_text,
                                           response_text>>
                       ELSE LET raw == tool_calls[1].function.arguments
                            IN /\ tool_name' = Some(tool_calls[1].function.name)
                               /\ IF raw # "" /\ ~JsonLoads(raw).ok
                                  THEN /\ ChatLoopExcept("JSONDecodeError")
                                       /\ tool_args' = Some(raw)
                                  ELSE /\ tool_args' =
                                            IF raw # ""
                                            THEN Some(JsonLoads(raw).value)
                                            ELSE Some(<<>>)
                                       /\ pc' = "call_tool"
                                       /\ UNCHANGED <<last_error, turn_status>>
                               /\ UNCHANGED <<final_text, response_text>>
               ELSE /\ final_text' = <<response.content>>
                    /\ ReturnText(<<response.content>>)
                    /\ UNCHANGED <<tool_name, tool_args>>
    /\ UNCHANGED <<conn_vars, session_requests, input_vars, available_tools,
                   turns, len_before, tool_dispatches, dispatch_fault,
                   turn_vars>>

\* Variant: the entry answers the last tool call of the message.
ToolEntry_LastCall(message, name, tool_result) ==
    [role |-> "tool",
     tool_call_id |->
        Get(message.tool_calls)[Len(Get(message.tool_calls))].id,
     name |-> name,
     content |-> ModelDumpJson(tool_result.content[1])]

\* The tool entry appended at lines 111-117.
ToolEntry(message, name, tool_result) ==
    [role |-> "tool",
     tool_call_id |-> Get(message.tool_calls)[1].id,
     name |-> name,
     content |-> ModelDumpJson(tool_result.content[1])]

\* Variant: a result that carries the error indicator is raised as an
\* exception when the entry is built.
ToolEntryRaises_OnIsError(outcome) ==
    IF IsNone(outcome) THEN Some("AttributeError")
    ELSE IF Get(outcome).isError THEN Some("McpError")
    ELSE IF Get(outcome).content = <<>> THEN Some("IndexError")
    ELSE None

\* The exception, if any, raised by result.content[0] at line 116: result is
\* None after a caught dispatch fault, or its content list is empty.  The
\* error indicator of the result is not read.
ToolEntryRaises(outcome) ==
    IF IsNone(outcome) THEN Some("AttributeError")
    ELSE IF Get(outcome).content = <<>> THEN Some("IndexError")
    ELSE None

\* process_query, lines 104-117: the tool is dispatched.  A raised Exception
\* is logged and leaves result = None; line 116 then reads result.content[0].
CallTool ==
    /\ pc = "call_tool"
    /\ tool_dispatches' = tool_dispatches + 1
    /\ session_requests' = session_requests + 1
    /\ ops' = Append(ops, "call_tool")
    /\ \E outcome \in {None} \cup {Some(r) : r \in CallToolResults} :
         /\ result' = outcome
         /\ dispatch_fault' = IsNone(outcome)
         /\ final_text' =
              IF IsNone(outcome) THEN final_text
              ELSE Append(final_text,
                          Some("[Calling tool " \o Get(tool_name)
                               \o " with args " \o PyStr(Get(tool_args))
                               \o "]"))
         /\ IF ~IsNone(ToolEntryRaises(outcome))
            THEN /\ ChatLoopExcept(Get(ToolEntryRaises(outcome)))
                 /\ UNCHANGED messages
            ELSE /\ messages' = LogAppend(messages,
                         ToolEntry(Get(content), Get(tool_name), Get(outcome)))
                 /\ pc' = "model2"
                 /\ UNCHANGED <<last_error, turn_status>>
    /\ UNCHANGED <<conn_vars, input_vars, available_tools, content, tool_name,
                   tool_args, response_text, turns, len_before, model_calls,
                   query, tools, second_response>>

\* process_query, lines 120-129: the second model call; its content is the
\* last part of the returned text.
SecondModelCall ==
    /\ pc = "model2"
    /\ model_calls' = model_calls + 1
    /\ ops' = Append(ops, "model")
    /\ \/ /\ ChatLoopExcept("APIError")
          /\ UNCHANGED <<final_text, response_text, second_response>>
       \/ \E response \in ModelResponses :
            /\ second_response' = Some(response)
            /\ final_text' = Append(final_text, response.content)
            /\ ReturnText(Append(final_text, response.content))
    /\ UNCHANGED <<conn_vars, session_requests, messages, input_vars,
                   available_tools, content, tool_name, tool_args, turns,
                   len_before, tool_dispatches, dispatch_fault, query, tools,
                   result>>

\* ------------------------------------------------------------ specification
Next ==
    \/ Main
    \/ ConnectCheck
    \/ ConnectStdio
    \/ ConnectSession
    \/ Initialize
    \/ ConnectListTools
    \/ ReadEOF
    \/ ReadLine
    \/ ListTools
    \/ FirstModelCall
    \/ CallTool
    \/ SecondModelCall
    \/ Interrupt
    \/ Cleanup

Spec == Init /\ [][Next]_vars

\* The steps the program takes on its own: every step but the arrival of an
\* interrupt, of a typed line, or of the end of input.  Once standard input
\* is exhausted, input() raising EOFError again is the program's own step.
ProgramStep ==
    \/ Main
    \/ ConnectCheck
    \/ ConnectStdio
    \/ ConnectSession
    \/ Initialize
    \/ ConnectListTools
    \/ (stdin_eof /\ ReadEOF)
    \/ ListTools
    \/ FirstModelCall
    \/ CallTool
    \/ SecondModelCall
    \/ Cleanup

\* asyncio.run(main()) keeps running the one task until it finishes.
FairSpec == Init /\ [][Next]_vars /\ WF_vars(ProgramStep)

\* The program followed by further calls of cleanup.
NextClose == Next \/ CleanupAgain

SpecClose == Init /\ [][NextClose]_vars

\* ------------------------------------------------------------ properties
\* A turn has ended when process_query has returned or raised into chat_loop.
TurnEnded == turn_status \in {"returned", "raised"}

\* The first response of the current turn carries a tool-call request.
FirstHasToolCall ==
    /\ ~IsNone(content)
    /\ ~IsNone(Get(content).tool_calls)
    /\ Get(Get(content).tool_calls) # <<>>

FirstToolCall == Get(Get(content).tool_calls)[1]

Growth == Len(messages) - len_before

\* C1: a turn whose first response carries a tool-call request issues exactly
\* one call_tool and exactly one second model call, whether the dispatch
\* succeeds or fails.
C1_ExactlyOneDispatchAndSecondCall ==
    (TurnEnded /\ FirstHasToolCall)
        => (tool_dispatches = 1 /\ model_calls = 2)

\* C2: when call_tool raises during a turn, process_query does not raise: a
\* tool entry with the original call id and tool name is appended, the second
\* model call is issued and the turn returns an answer.
C2_DispatchFaultStillAnswers ==
    (TurnEnded /\ dispatch_fault)
        => /\ turn_status = "returned"
           /\ model_calls = 2
           /\ Growth = 3
           /\ messages[Len(messages)].role = "tool"
           /\ messages[Len(messages)].tool_call_id = FirstToolCall.id
           /\ messages[Len(messages)].name = FirstToolCall.function.name

\* The first tool call's argument payload is non-empty and is not JSON.
MalformedArguments ==
    /\ FirstHasToolCall
    /\ FirstToolCall.function.arguments # ""
    /\ ~JsonLoads(FirstToolCall.function.arguments).ok

\* C3: with a non-empty argument payload that does not parse, the turn does
\* not raise: a tool entry and the second model call still follow.
C3_MalformedArgumentsStillAnswer ==
    (TurnEnded /\ MalformedArguments)
        => /\ turn_status = "returned"
           /\ model_calls = 2
           /\ Growth = 3
           /\ messages[Len(messages)].role = "tool"

\* C4 as stated: every turn grows the conversation log by exactly 2 or
\* exactly 3 entries.
C4_GrowthTwoOrThree ==
    TurnEnded => Growth \in {2, 3}

\* C4 as amended: every turn grows the log by 1, 2 or 3 entries, and a turn
\* that returns grows it by exactly 2 (user + assistant) when the first
\* response carries no tool call and exactly 3 (user + assistant + tool)
\* when it does.
C4_GrowthOfReturnedTurn ==
    TurnEnded
        => /\ Growth \in {1, 2, 3}
           /\ turn_status = "returned"
                => Growth = IF FirstHasToolCall THEN 3 ELSE 2

C4_Witness ==
    /\ turns = 2
    /\ turn_status = "returned"
    /\ FirstHasToolCall
    /\ Growth = 3
    /\ Len(messages) = 5

\* A message carries a tool-call request.
CarriesToolCall(m) ==
    /\ m.role = "assistant"
    /\ ~IsNone(m.tool_calls)
    /\ Get(m.tool_calls) # <<>>

\* C5: every tool entry of the log is immediately preceded by an assistant
\* entry that carries a tool-call request, and has the id and the tool name of
\* that entry's first tool-call request.
C5_ToolEntryAnswersPrecedingCall ==
    \A i \in 1..Len(messages) :
        messages[i].role = "tool"
            => /\ i > 1
               /\ CarriesToolCall(messages[i - 1])
               /\ messages[i].tool_call_id = Get(messages[i - 1].tool_calls)[1].id
               /\ messages[i].name =
                      Get(messages[i - 1].tool_calls)[1].function.name

C5_Witness ==
    \E i \in 2..Len(messages) :
        /\ messages[i].role = "tool"
        /\ Len(Get(messages[i - 1].tool_calls)) = 2
        /\ messages[i].tool_call_id = "call_1"

\* C6: in a turn whose first response carries no tool-call request,
\* call_tool is never invoked, no second model call is issued, no tool entry
\* is appended, and the text returned is the first response's content.
C6_NoToolCallNoDispatch ==
    (turn_status \in {"running", "returned", "raised"}
       /\ ~IsNone(content) /\ ~FirstHasToolCall)
        => /\ tool_dispatches = 0
           /\ model_calls = 1
           /\ \A i \in (len_before + 1)..Len(messages) :
                  messages[i].role # "tool"
           /\ turn_status = "returned"
                => response_text = Get(content).content

C6_Witness ==
    /\ turn_status = "returned"
    /\ ~IsNone(content)
    /\ ~FirstHasToolCall
    /\ response_text = Some("4")
    /\ Growth = 2

IsPrefix(s, t) == Len(s) <= Len(t) /\ SubSeq(t, 1, Len(s)) = s

C7_Step ==
    pc \in {"prompt", "list_tools", "model1", "call_tool", "model2",
            "finally", "exited"}
        => IsPrefix(messages, messages')

\* C7: once connected, every step leaves the previous conversation log a
\* prefix of the new one.
C7_LogAppendOnly == [][C7_Step]_vars

C7_Witness ==
    /\ turns = 2
    /\ turn_status = "raised"
    /\ Len(messages) >= 5

\* C8: when main has left its try block and finished, cleanup has run exactly
\* once and every context entered on the exit stack has been released exactly
\* once; before that nothing is released.
C8_ReleaseExactlyOnce ==
    /\ (pc = "exited" /\ IsNone(exit_code))
         => /\ cleanup_calls = 1
            /\ exit_stack = <<>>
            /\ released = Reverse(acquired)
    /\ pc # "exited" => (cleanup_calls = 0 /\ released = <<>>)

C8_Witness ==
    /\ pc = "exited"
    /\ exc = Some("KeyboardInterrupt")
    /\ turn_status = "interrupted"
    /\ released = <<"session", "stdio">>

C9_Step ==
    /\ session_requests' # session_requests => SessionState = "Ready"
    /\ turns' # turns => SessionState = "Ready"
    /\ (pc \in {"connect", "stdio", "client_session", "initialize"}
          /\ pc' \notin {"connect", "stdio", "client_session", "initialize",
                         "connect_list"})
         => /\ pc' = "finally"
            /\ ~IsNone(exc')
            /\ SessionState' # "Ready"
            /\ turns' = 0
    /\ pc \in {"finally", "exited"}
         => /\ turns' = turns
            /\ session_requests' = session_requests
            /\ pc' \in {"finally", "exited"}

\* C9: list_tools and call_tool are issued, and turns are started, only in
\* state Ready; a failure of launch, handshake or initialize leaves main with
\* an error, the session not Ready and no turn started; after the try block is
\* left no request is issued and no turn starts.
C9_RequestsOnlyWhenReady == [][C9_Step]_vars

C9_Witness ==
    /\ pc = "exited"
    /\ exc = Some("McpError")
    /\ ~initialized
    /\ acquired = <<"stdio", "session">>
    /\ turns = 0
    /\ session_requests = 0

\* A step in which a model call is issued and fails: the first call appends
\* nothing to the log, the second adds no part to final_text.
ModelCallFails ==
    /\ model_calls' = model_calls + 1
    /\ \/ pc = "model1" /\ messages' = messages
       \/ pc = "model2" /\ final_text' = final_text

C10_Step ==
    ModelCallFails
        => /\ pc' = "prompt"
           /\ last_error' = Some("APIError")
           /\ turn_status' = "raised"
           /\ SessionState' = "Ready"
           /\ exit_stack' = exit_stack
           /\ IsNone(exc')

\* C10: when a model call fails inside a turn, the error reaches chat_loop's
\* handler, is logged, the session stays open and the loop is back at the
\* prompt.
C10_ModelErrorReprompts == [][C10_Step]_vars

C10_Witness ==
    /\ pc = "prompt"
    /\ last_error = Some("APIError")
    /\ model_calls = 2
    /\ turn_status = "raised"
    /\ SessionState = "Ready"

\* The dispatch of the current turn returned a result with the error
\* indicator set.
ErrorResult == ~IsNone(result) /\ Get(result).isError

C12_Step ==
    cleanup_calls' = cleanup_calls + 1
        => /\ SessionState' = "Closed"
           /\ exit_stack' = <<>>
           /\ released' = Reverse(acquired')
           /\ exc' = exc
           /\ cleanup_calls > 0 => released' = released

\* C12: every call of cleanup, the first from any session state and each
\* later one, raises nothing and leaves the session Closed with every entered
\* context released exactly once; a repeated call changes nothing.
C12_CleanupIdempotent == [][C12_Step]_vars

C12_Witness ==
    /\ cleanup_calls = 2
    /\ released = <<"session", "stdio">>
    /\ SessionState = "Closed"

\* The stripped lines that equal 'quit' when case is ignored, among Lines.
QuitQueries == { <<"q", "u", "i", "t">>, <<"Q", "u", "I", "T">> }

C13_Step ==
    /\ (pc = "prompt" /\ ~IsNone(query') /\ Get(query') \in QuitQueries)
         => /\ pc' = "finally"
            /\ IsNone(exc')
            /\ messages' = messages
            /\ turns' = turns
            /\ session_requests' = session_requests
            /\ model_calls' = model_calls
            /\ tool_dispatches' = tool_dispatches
            /\ ops' = ops
    /\ pc = "finally"
         => /\ pc' = "exited"
            /\ cleanup_calls' = cleanup_calls + 1
            /\ exit_stack' = <<>>

\* C13: a line that equals 'quit' once stripped and lowered ends the loop
\* without starting a turn (no log append, no model call, no tool call), and
\* the step that follows is the session's cleanup.
C13_QuitEndsLoop == [][C13_Step]_vars

C13_Witness ==
    /\ pc = "exited"
    /\ query = Some(<<"Q", "u", "I", "T">>)
    /\ IsNone(exc)
    /\ turns = 1
    /\ Len(messages) = 2
    /\ cleanup_calls = 1

\* C14: once list_tools has returned in a turn, every fetched Tool Descriptor
\* has its adapted schema in available_tools, with the descriptor's name and
\* description and with properties and required copied from its input
\* schema.
C14_EveryDescriptorAdapted ==
    (turn_status \in {"running", "returned", "raised"} /\ ~IsNone(tools))
        => /\ Len(available_tools) = Len(Get(tools))
           /\ \A i \in 1..Len(Get(tools)) :
                LET tool == Get(tools)[i]
                    schema == available_tools[i].function
                IN /\ schema.name = tool.name
                   /\ schema.description = tool.description
                   /\ schema.parameters.properties = tool.inputSchema.properties
                   /\ schema.parameters.required = tool.inputSchema.required

\* The script path given on the command line ends in neither .py nor .js.
UnrecognizedScript ==
    /\ Len(argv) >= 2
    /\ argv[2] = <<"s", ".", "t", "x", "t">>

\* C15: with a script path that ends in neither .py nor .js no connection is
\* attempted: nothing is entered on the exit stack, no initialize, list_tools
\* or call_tool is issued, no turn runs, and main ends with the error.
C15_UnrecognizedScriptFailsFast ==
    UnrecognizedScript
        => /\ acquired = <<>>
           /\ exit_stack = <<>>
           /\ ~initialized
           /\ session_requests = 0
           /\ turns = 0
           /\ messages = <<>>
           /\ pc \in {"main", "connect", "finally", "exited"}
           /\ pc \in {"finally", "exited"}
                => exc \in {Some("ValueError"), Some("KeyboardInterrupt")}

C15_Witness ==
    /\ UnrecognizedScript
    /\ pc = "exited"
    /\ exc = Some("ValueError")
    /\ cleanup_calls = 1
    /\ released = <<>>

\* C16: a turn that dispatched a tool and returned returns the announcement
\* "[Calling tool <name> with args <args>]", a newline and the text of the
\* second model response; the first response's text is not part of it.
C16_AnnouncementThenSecondText ==
    (turn_status = "returned" /\ tool_dispatches = 1)
        => /\ ~IsNone(second_response)
           /\ ~IsNone(Get(second_response).content)
           /\ response_text =
                Some("[Calling tool " \o FirstToolCall.function.name
                     \o " with args " \o PyStr(Get(tool_args)) \o "]"
                     \o "\n" \o Get(Get(second_response).content))

C16_Witness ==
    /\ turn_status = "returned"
    /\ tool_dispatches = 1
    /\ Get(content).content = Some("Let me check.")
    /\ response_text = Some("[Calling tool list_files with args {}]\n4")

\* The external operations of a turn, in the order of process_query.
TurnOps == <<"list_tools", "model", "call_tool", "model">>

C17_Step ==
    /\ turns' # turns
         => /\ pc = "prompt"
            /\ turn_status # "running"
            /\ ops' = <<>>
            /\ Len(messages') = Len(messages) + 1
            /\ messages'[Len(messages')].role = "user"
    /\ IsPrefix(ops', TurnOps)
    /\ (ops' # ops /\ turns' = turns)
         => /\ turn_status = "running"
            /\ Len(messages) > len_before
            /\ ops' = Append(ops, TurnOps[Len(ops) + 1])
    /\ (turn_status = "running" /\ turn_status' = "returned")
         => ops' \in {SubSeq(TurnOps, 1, 2), TurnOps}

\* C17: a turn starts only at the prompt, when no turn is running, and first
\* appends the user entry; its external operations are issued one per step in
\* the order list_tools, first model call, call_tool, second model call; a
\* turn returns after the first model call or after the second.
C17_StrictlySequential == [][C17_Step]_vars

C17_Witness ==
    /\ turns = 2
    /\ ops = TurnOps
    /\ turn_status = "returned"
    /\ pc = "prompt"

\* The second response of the current turn carries a tool-call request.
SecondHasToolCall ==
    /\ ~IsNone(second_response)
    /\ CarriesToolCall(Get(second_response))

\* C18: a turn issues at most one call_tool and at most two model calls; when
\* the second response itself carries a tool-call request nothing more is
\* dispatched or asked and the turn returns that response's text after the
\* announcement; the dispatched call is the first of the first response.
C18_SingleHop ==
    /\ tool_dispatches <= 1
    /\ model_calls <= 2
    /\ (TurnEnded /\ SecondHasToolCall)
         => /\ turn_status = "returned"
            /\ tool_dispatches = 1
            /\ model_calls = 2
            /\ Growth = 3
            /\ messages[Len(messages)].tool_call_id = FirstToolCall.id
            /\ response_text =
                 Some("[Calling tool " \o FirstToolCall.function.name
                      \o " with args " \o PyStr(Get(tool_args)) \o "]"
                      \o "\n" \o Get(Get(second_response).content))

\* C19: when a turn starts (its user entry appended, before list_tools), every
\* assistant entry of the log that carries a tool-call request is immediately
\* followed by a tool entry with that request's id.
C19_NoUnansweredToolCall ==
    pc = "list_tools"
        => \A i \in 1..Len(messages) :
             CarriesToolCall(messages[i])
                => /\ i < Len(messages)
                   /\ messages[i + 1].role = "tool"
                   /\ messages[i + 1].tool_call_id =
                          Get(messages[i].tool_calls)[1].id

\* C20: once standard input is exhausted, chat_loop eventually exits and
\* main finishes, its cleanup run.
C20_EndOfInputTerminates ==
    stdin_eof ~> (pc = "exited" /\ cleanup_calls = 1)

====
